---- MODULE Spec2Model ----
(***************************************************************************)
(* Ros2Supervisor (webots_ros2_driver/ros2_supervisor.py): the node that   *)
(* spawns URDF robots and Webots nodes into the children field of the      *)
(* world's root node, removes them by name, and steps the simulation while *)
(* publishing /clock.                                                      *)
(*                                                                         *)
(* Strings the regular expression looks into are sequences of tokens: the  *)
(* literal 'name ' is one token, every other token is one character.       *)
(* Names are strings.  Every callback is one action: rclpy.spin runs the   *)
(* callbacks of the node one at a time.                                    *)
(***************************************************************************)
EXTENDS Integers, Sequences, FiniteSets, TLC

\* ------------------------------------------------------------------ bounds
\* Largest number of nodes the children field holds in the model.
MaxChildren == 2
\* Largest number of nodes the world holds before the supervisor starts.
MaxWorldNodes == 1
\* Largest simulated time, in basic time steps.
MaxTime == 2

\* ------------------------------------------------------------ input values
\* self.__robot.getBasicTimeStep(), in milliseconds: set by the world
BasicTimeStep == 500

KW == "name "
Q == "\""
\* characters of [a-z0-9_]
IdentChars == {"a", "b"}
\* a character outside [a-z0-9_] that is neither a quote nor part of 'name '
Other == "{"

\* Names a node of the world, a robot or a remove message can carry.
Names == {"", "a", "b"}

\* request.data of SpawnNodeFromString
Fragments ==
  { <<>>,                                      \* ''
    <<Other>>,                                 \* '{'              no pattern
    <<KW, Other, Q>>,                          \* 'name {"'        no pattern
    <<KW, Q, "a">>,                            \* 'name "a'        no pattern
    <<KW, Q, Q>>,                              \* 'name ""'
    <<KW, Q, "a", Q>>,                         \* 'name "a"'
    <<Other, KW, Q, "b", Q, Other>>,           \* '{name "b"{'
    <<KW, Q, Other, Q, KW, Q, "a", Q>>,        \* 'name "{"name "a"'
    <<KW, Q, "b", Q, KW, Q, "a", Q>> }         \* 'name "b"name "a"'

\* request.robot of SpawnUrdfRobot: the fields the callback branches on.
Robots ==
  [ name : Names,
    urdf_path : {"", "r.urdf"},
    robot_description : {"", "<robot/>"},
    relative_path_prefix : {"", "/p"} ]

\* ------------------------------------------------------------------- state
VARIABLES
  node_list,        \* self.__node_list
  children,         \* self.__insertion_node_place: the root's children field
  time,             \* self.__robot.getTime(), in basic time steps
  op,               \* the callback that ran last
  robot,            \* its request.robot            (spawn_urdf_robot)
  data,             \* its request.data             (spawn_node_from_string)
  message,          \* its message.data             (remove_node)
  name,             \* its robot_name / object_name / name
  success,          \* response.success
  raised,           \* the callback ended in an exception
  log,              \* what it passed to get_logger().info, in order
  converter_calls,  \* its calls of convertUrdfFile / convertUrdfContent
  import_calls,     \* its calls of importMFNodeFromString
  clock,            \* what it published on /clock
  node_list_before, \* self.__node_list when it was called
  children_before,  \* the children field when it was called
  step_calls,       \* what its calls of self.__robot.step returned
  spinning,         \* rclpy.spin(ros_2_supervisor) has not ended
  pc                \* where the callback in progress is, "idle" between callbacks

vars == << node_list, children, time, op, robot, data, message, name, success,
           raised, log, converter_calls, import_calls, clock,
           node_list_before, children_before, step_calls, spinning, pc >>

\* ----------------------------------------------------------- Python lists
Range(s) == { s[i] : i \in 1..Len(s) }

\* x in self.__node_list
NameUsedNever(x, list) == FALSE
NameUsedAlways(x, list) == TRUE
NameUsed(x, list) == x \in Range(list)

\* robot_name == '' / object_name == ''
UnnamedNever(x) == FALSE
Unnamed(x) == x = ""

\* list.append(x)
ListAppendNothing(list, x) == list
ListAppend(list, x) == Append(list, x)

RemoveAt(s, i) == SubSeq(s, 1, i - 1) \o SubSeq(s, i + 1, Len(s))

\* the index of the first element of list equal to x, 0 when there is none
Index(list, x) ==
  IF x \in Range(list)
    THEN CHOOSE i \in 1..Len(list) :
           list[i] = x /\ \A j \in 1..(i - 1) : list[j] # x
    ELSE 0

\* list.remove(x), called only with x in list
ListRemoveNothing(list, x) == list
ListRemove(list, x) == RemoveAt(list, Index(list, x))

\* ------------------------------------- re.search('name "[a-z0-9_]*"', s)
\* the number of characters of [a-z0-9_] at s[i], s[i+1], ...
RECURSIVE IdentRun(_, _)
IdentRun(s, i) ==
  IF i <= Len(s) /\ s[i] \in IdentChars THEN 1 + IdentRun(s, i + 1) ELSE 0

\* The pattern matches at position i: 'name ', a quote, the longest run of
\* [a-z0-9_] (a shorter run is never followed by a quote), a quote.
MatchAt(s, i) ==
  /\ i + 1 <= Len(s)
  /\ s[i] = KW
  /\ s[i + 1] = Q
  /\ i + 2 + IdentRun(s, i + 2) <= Len(s)
  /\ s[i + 2 + IdentRun(s, i + 2)] = Q

MatchEnd(s, i) == i + 2 + IdentRun(s, i + 2)

\* name_match is None
NoMatch(s) == \A i \in 1..Len(s) : ~MatchAt(s, i)

\* name_match.group(): the leftmost match
Group(s) ==
  LET i == CHOOSE k \in 1..Len(s) :
             MatchAt(s, k) /\ \A j \in 1..(k - 1) : ~MatchAt(s, j)
  IN SubSeq(s, i, MatchEnd(s, i))

\* the text as a Python string
RECURSIVE Join(_)
Join(s) == IF s = <<>> THEN "" ELSE Head(s) \o Join(Tail(s))

\* name_match.group().replace('name ', '').replace('"', '')
IsNotKW(c) == c # KW
IsNotQ(c) == c # Q
ObjectName(s) == Join(SelectSeq(SelectSeq(Group(s), IsNotKW), IsNotQ))

\* ----------------------------------------- the children field of the root
\* A node: whether it has a name field, the field's value, and who put the
\* node into the world.
WorldNode(has, n) == [has_name |-> has, name |-> n, owner |-> "world"]
WorldNodes == { WorldNode(FALSE, "") } \cup { WorldNode(TRUE, n) : n \in Names \ {""} }

RECURSIVE SeqsUpTo(_, _)
SeqsUpTo(S, n) ==
  IF n = 0 THEN { <<>> }
  ELSE LET shorter == SeqsUpTo(S, n - 1)
       IN shorter \cup { Append(s, x) : s \in { t \in shorter : Len(t) = n - 1 }, x \in S }

\* What importMFNodeFromString(-1, string) does to the field: Webots parses
\* the string and either appends the node it describes or prints an error
\* and appends nothing.  The node's name field is what Webots read from the
\* string.
ImportOutcomes(ch) ==
  { [created |-> FALSE, has_name |-> FALSE, name |-> ""] }
  \cup (IF Len(ch) < MaxChildren
          THEN { [created |-> TRUE, has_name |-> FALSE, name |-> ""] }
               \cup { [created |-> TRUE, has_name |-> TRUE, name |-> n] : n \in Names \ {""} }
          ELSE {})

importMFNodeFromStringAtStart(ch, outcome) ==
  IF outcome.created
    THEN << [has_name |-> outcome.has_name, name |-> outcome.name,
             owner |-> "manager"] >> \o ch
    ELSE ch
importMFNodeFromStringOverLast(ch, outcome) ==
  IF outcome.created
    THEN SubSeq(ch, 1, Len(ch) - 1)
           \o << [has_name |-> outcome.has_name, name |-> outcome.name,
                  owner |-> "manager"] >>
    ELSE ch
importMFNodeFromString(ch, outcome) ==
  IF outcome.created
    THEN Append(ch, [has_name |-> outcome.has_name, name |-> outcome.name,
                     owner |-> "manager"])
    ELSE ch

\* node_name_field and node_name_field.getSFString() == target
NameFieldIs(node, target) == node.has_name /\ node.name = target

\* The for loop over range(getCount()) with its break: the index of the
\* first node whose name field is target, 0 when the loop runs to its end.
ScanLast(ch, target) ==
  IF \E i \in 1..Len(ch) : NameFieldIs(ch[i], target)
    THEN CHOOSE i \in 1..Len(ch) :
           NameFieldIs(ch[i], target)
           /\ \A j \in (i + 1)..Len(ch) : ~NameFieldIs(ch[j], target)
    ELSE 0
Scan(ch, target) ==
  IF \E i \in 1..Len(ch) : NameFieldIs(ch[i], target)
    THEN CHOOSE i \in 1..Len(ch) :
           NameFieldIs(ch[i], target)
           /\ \A j \in 1..(i - 1) : ~NameFieldIs(ch[j], target)
    ELSE 0

\* node_imported_successfully after the loop of spawn_node_from_string
ImportedAlways(ch, target) == TRUE
Imported(ch, target) == Scan(ch, target) > 0

\* The variable node after the loop of remove_imported_node_callback, as an
\* index into the field (0 for None): the loop assigns every node it visits
\* to node, so after a loop without a match node is the last node visited.
NodeAfterLoop(ch, target) ==
  IF Len(ch) = 0 THEN 0
  ELSE IF Scan(ch, target) > 0 THEN Scan(ch, target)
  ELSE Len(ch)

\* ------------------------------------------------------------ the callbacks
NoRobot == [name |-> "", urdf_path |-> "", robot_description |-> "",
            relative_path_prefix |-> ""]

\* What a callback leaves behind for an observer: its request and what it
\* returned, logged, called and published.
Observed(o, r, d, m, n, s, ex, l, cc, ic, ck, sc) ==
  /\ op' = o
  /\ robot' = r
  /\ data' = d
  /\ message' = m
  /\ name' = n
  /\ success' = s
  /\ raised' = ex
  /\ log' = l
  /\ converter_calls' = cc
  /\ import_calls' = ic
  /\ clock' = ck
  /\ node_list_before' = node_list
  /\ children_before' = children
  /\ step_calls' = sc
  /\ spinning' = ~ex
  /\ pc' = pc

Init ==
  /\ node_list = <<>>
  /\ children \in SeqsUpTo(WorldNodes, MaxWorldNodes)
  /\ time = 0
  /\ op = "none"
  /\ robot = NoRobot
  /\ data = <<>>
  /\ message = ""
  /\ name = ""
  /\ success = FALSE
  /\ raised = FALSE
  /\ log = <<>>
  /\ converter_calls = <<>>
  /\ import_calls = 0
  /\ clock = <<>>
  /\ node_list_before = <<>>
  /\ children_before = children
  /\ step_calls = <<>>
  /\ spinning = TRUE
  /\ pc = "idle"

\* rclpy.spin runs one callback at a time, each to its end, with the default
\* single-threaded executor: it takes the next callback when none is in
\* progress.
IdleAlways == TRUE
Idle == pc = "idle"

\* A callback can be taken: spin has not ended (an exception that leaves a
\* callback leaves rclpy.spin and main) and no callback is in progress.
Ready == spinning /\ Idle

\* self.__robot.getTime() in milliseconds after t basic time steps
getTime(t) == t * BasicTimeStep

\* Time(seconds=...).to_msg(): seconds and nanoseconds
ClockMessageSecondsOnly(ms) == [sec |-> ms \div 1000, nanosec |-> 0]
ClockMessage(ms) == [sec |-> ms \div 1000, nanosec |-> (ms % 1000) * 1000000]

\* The converter call the request selects: convertUrdfFile when urdf_path is
\* set, else convertUrdfContent when robot_description is set, else none.
ConverterCallContentFirst(r) ==
  IF r.robot_description # ""
    THEN << [converter |-> "convertUrdfContent", input |-> r.robot_description,
             robotName |-> r.name,
             relativePathPrefix |-> IF r.relative_path_prefix # ""
                                      THEN r.relative_path_prefix ELSE "None"] >>
  ELSE IF r.urdf_path # ""
    THEN << [converter |-> "convertUrdfFile", input |-> r.urdf_path,
             robotName |-> r.name, relativePathPrefix |-> "unset"] >>
  ELSE <<>>
ConverterCall(r) ==
  IF r.urdf_path # ""
    THEN << [converter |-> "convertUrdfFile", input |-> r.urdf_path,
             robotName |-> r.name, relativePathPrefix |-> "unset"] >>
  ELSE IF r.robot_description # ""
    THEN << [converter |-> "convertUrdfContent", input |-> r.robot_description,
             robotName |-> r.name,
             relativePathPrefix |-> IF r.relative_path_prefix # ""
                                      THEN r.relative_path_prefix ELSE "None"] >>
  ELSE <<>>

\* __spawn_urdf_robot_callback.  The converter either raises or returns a
\* string, and outcome is what Webots does with that string.
SpawnUrdfRobot(r) ==
  LET robot_name == r.name
      seen(s, ex, l, cc, ic) ==
        Observed("spawn_urdf_robot", r, <<>>, "", robot_name, s, ex, l, cc, ic, <<>>, <<>>)
  IN
  /\ Ready
  /\ time' = time
  /\ IF Unnamed(robot_name)
       THEN /\ seen(FALSE, FALSE, << "cannot import an unnamed URDF robot" >>, <<>>, 0)
            /\ UNCHANGED << node_list, children >>
     ELSE IF NameUsed(robot_name, node_list)
       THEN /\ seen(FALSE, FALSE, << "name is already used by another robot" >>, <<>>, 0)
            /\ UNCHANGED << node_list, children >>
     ELSE IF ConverterCall(r) = <<>>
       THEN /\ seen(FALSE, FALSE, << "without urdf_path or robot_description" >>, <<>>, 0)
            /\ UNCHANGED << node_list, children >>
     ELSE \/ /\ seen(FALSE, TRUE, <<>>, ConverterCall(r), 0)
             /\ UNCHANGED << node_list, children >>
          \/ \E outcome \in ImportOutcomes(children) :
               /\ children' = importMFNodeFromString(children, outcome)
               /\ node_list' = ListAppend(node_list, robot_name)
               /\ seen(TRUE, FALSE, << "has imported the URDF robot" >>, ConverterCall(r), 1)

\* __spawn_node_from_string_callback.
SpawnNodeFromString(object_string) ==
  LET seen(n, s, ex, l, ic) ==
        Observed("spawn_node_from_string", NoRobot, object_string, "", n, s, ex, l, <<>>, ic, <<>>, <<>>)
  IN
  /\ Ready
  /\ time' = time
  /\ IF object_string = <<>>
       THEN /\ seen("", FALSE, FALSE, << "cannot import an empty string" >>, 0)
            /\ UNCHANGED << node_list, children >>
     ELSE IF NoMatch(object_string)
       \* name_match is None: name_match.group() raises AttributeError
       THEN /\ seen("", FALSE, TRUE, <<>>, 0)
            /\ UNCHANGED << node_list, children >>
     ELSE
       LET object_name == ObjectName(object_string)
           provisional == ListAppend(node_list, object_name)
       IN
       IF Unnamed(object_name)
         THEN /\ seen(object_name, FALSE, FALSE, << "cannot import an unnamed node" >>, 0)
              /\ UNCHANGED << node_list, children >>
       ELSE IF NameUsed(object_name, node_list)
         THEN /\ seen(object_name, FALSE, FALSE, << "has found a duplicate node" >>, 0)
              /\ UNCHANGED << node_list, children >>
       ELSE \E outcome \in ImportOutcomes(children) :
         LET imported == importMFNodeFromString(children, outcome)
         IN
         /\ children' = imported
         /\ IF ~Imported(imported, object_name)
              THEN /\ node_list' = ListRemove(provisional, object_name)
                   /\ seen(object_name, FALSE, FALSE, << "could not import the node" >>, 1)
              ELSE /\ node_list' = provisional
                   /\ seen(object_name, TRUE, FALSE, << "has imported the node" >>, 1)

\* __remove_imported_node_callback.
RemoveImportedNode(m) ==
  LET seen(l) ==
        Observed("remove_node", NoRobot, <<>>, m, m, FALSE, FALSE, l, <<>>, 0, <<>>, <<>>)
      node == NodeAfterLoop(children, m)
  IN
  /\ Ready
  /\ time' = time
  /\ IF NameUsed(m, node_list)
       THEN IF node # 0
              THEN /\ children' = RemoveAt(children, node)
                   /\ node_list' = ListRemove(node_list, m)
                   /\ seen(<< "has removed the node" >>)
              ELSE /\ seen(<< "has not been found in the simulation world" >>)
                   /\ UNCHANGED << node_list, children >>
       ELSE /\ seen(<<>>)
            /\ UNCHANGED << node_list, children >>

\* __supervisor_step_callback.  step: what self.__robot.step returns; a step
\* that does not end the simulation advances the simulated time.
SupervisorStep(step) ==
  LET seen(l, ck) ==
        Observed("step", NoRobot, <<>>, "", "", FALSE, FALSE, l, <<>>, 0, ck, << step >>)
  IN
  /\ Ready
  /\ UNCHANGED << node_list, children >>
  /\ IF step < 0
       THEN /\ time' = time
            /\ seen(<< "is shutting down" >>, <<>>)
       ELSE /\ time < MaxTime
            /\ time' = time + 1
            /\ seen(<<>>, << ClockMessage(getTime(time + 1)) >>)

Next ==
  \/ \E r \in Robots : SpawnUrdfRobot(r)
  \/ \E object_string \in Fragments : SpawnNodeFromString(object_string)
  \/ \E m \in Names : RemoveImportedNode(m)
  \/ \E step \in {-1, 0} : SupervisorStep(step)

Spec == Init /\ [][Next]_vars

\* ------------------------------------------- the callbacks, line by line
\* __spawn_node_from_string_callback in three steps, for what can be seen
\* while it runs: up to the provisional self.__node_list.append (line 132),
\* the importMFNodeFromString call (line 133), the scan and the return
\* (lines 136-152).  The other callbacks have no state of their own between
\* their first and last line and stay one step.
SpawnNodeFromStringBegin(object_string) ==
  LET seen(n, s, ex, l, ic) ==
        Observed("spawn_node_from_string", NoRobot, object_string, "", n, s, ex, l, <<>>, ic, <<>>, <<>>)
  IN
  /\ Ready
  /\ time' = time
  /\ children' = children
  /\ IF object_string = <<>>
       THEN /\ seen("", FALSE, FALSE, << "cannot import an empty string" >>, 0)
            /\ node_list' = node_list
     ELSE IF NoMatch(object_string)
       THEN /\ seen("", FALSE, TRUE, <<>>, 0)
            /\ node_list' = node_list
     ELSE
       LET object_name == ObjectName(object_string)
       IN
       IF Unnamed(object_name)
         THEN /\ seen(object_name, FALSE, FALSE, << "cannot import an unnamed node" >>, 0)
              /\ node_list' = node_list
       ELSE IF NameUsed(object_name, node_list)
         THEN /\ seen(object_name, FALSE, FALSE, << "has found a duplicate node" >>, 0)
              /\ node_list' = node_list
       ELSE /\ node_list' = ListAppend(node_list, object_name)
            /\ op' = "spawn_node_from_string"
            /\ robot' = NoRobot
            /\ data' = object_string
            /\ message' = ""
            /\ name' = object_name
            /\ success' = FALSE
            /\ raised' = FALSE
            /\ log' = <<>>
            /\ converter_calls' = <<>>
            /\ import_calls' = 0
            /\ clock' = <<>>
            /\ node_list_before' = node_list
            /\ children_before' = children
            /\ step_calls' = <<>>
            /\ spinning' = spinning
            /\ pc' = "provisional"

SpawnNodeFromStringImport ==
  /\ spinning
  /\ pc = "provisional"
  /\ \E outcome \in ImportOutcomes(children) :
       children' = importMFNodeFromString(children, outcome)
  /\ import_calls' = import_calls + 1
  /\ pc' = "imported"
  /\ UNCHANGED << node_list, time, op, robot, data, message, name, success,
                  raised, log, converter_calls, clock, node_list_before,
                  children_before, step_calls, spinning >>

SpawnNodeFromStringVerify ==
  /\ spinning
  /\ pc = "imported"
  /\ IF ~Imported(children, name)
       THEN /\ node_list' = ListRemove(node_list, name)
            /\ log' = << "could not import the node" >>
            /\ success' = FALSE
       ELSE /\ node_list' = node_list
            /\ log' = << "has imported the node" >>
            /\ success' = TRUE
  /\ pc' = "idle"
  /\ UNCHANGED << children, time, op, robot, data, message, name, raised,
                  converter_calls, import_calls, clock, node_list_before,
                  children_before, step_calls, spinning >>

NextSteps ==
  \/ \E r \in Robots : SpawnUrdfRobot(r)
  \/ \E object_string \in Fragments : SpawnNodeFromStringBegin(object_string)
  \/ SpawnNodeFromStringImport
  \/ SpawnNodeFromStringVerify
  \/ \E m \in Names : RemoveImportedNode(m)
  \/ \E step \in {-1, 0} : SupervisorStep(step)

SpecSteps == Init /\ [][NextSteps]_vars

TypeOK ==
  /\ node_list \in Seq(Names)
  /\ Len(children) <= MaxChildren
  /\ time \in 0..MaxTime
  /\ success \in BOOLEAN
  /\ raised \in BOOLEAN
  /\ spinning \in BOOLEAN
  /\ pc \in {"idle", "provisional", "imported"}

\* ================================================================== claims
Spawns == {"spawn_urdf_robot", "spawn_node_from_string"}

\* x is an element of the list
InList(list, x) == \E i \in 1..Len(list) : list[i] = x

\* some node of the field has a name field equal to n
HasNode(ch, n) == \E i \in 1..Len(ch) : ch[i].has_name /\ ch[i].name = n

IsWorldNode(node) == node.owner = "world"

\* C1: remove-by-name of a registered name that no node of the children field
\* carries does not raise, removes no node and leaves the registry unchanged.
C1_DesyncRemoveKeepsState ==
  (op = "remove_node" /\ InList(node_list_before, message)
     /\ ~HasNode(children_before, message))
  => (~raised /\ children = children_before /\ node_list = node_list_before)

\* C2: remove-by-name never removes a node that was in the world before the
\* supervisor started: the nodes no spawn appended are the same before and
\* after every removal.
C2_RemoveKeepsWorldNodes ==
  op = "remove_node"
  => SelectSeq(children, IsWorldNode) = SelectSeq(children_before, IsWorldNode)

\* C3: a spawn (either path) whose name is in the registry returns
\* success=false and leaves the registry unchanged, the raw-fragment path also
\* appends nothing; so a spawn that succeeds had a name that was not in the
\* registry.
C3_DuplicateNameRejected ==
  op \in Spawns
  => /\ InList(node_list_before, name)
        => /\ ~success
           /\ node_list = node_list_before
           /\ (op = "spawn_node_from_string" => children = children_before)
     /\ success => ~InList(node_list_before, name)

C3_Witness ==
  /\ op = "spawn_node_from_string"
  /\ InList(node_list_before, name)
  /\ import_calls = 0

\* C4 as claimed: after a spawn that returns success=true (either path) the
\* name is in the registry and a node of the children field carries it.
C4_SuccessMeansNodeExists ==
  (op \in Spawns /\ success)
  => (InList(node_list, name) /\ HasNode(children, name))

\* C4 as amended: after a spawn that returns success=true the name is in the
\* registry, and after a raw-fragment spawn that returns success=true a node
\* of the children field carries it, whatever Webots did with the string; the
\* robot-description path does not look at the field.
C4_SuccessRegistersName ==
  (op \in Spawns /\ success)
  => /\ InList(node_list, name)
     /\ op = "spawn_node_from_string" => HasNode(children, name)

\* a raw-fragment spawn succeeded although Webots appended nothing
C4_Witness ==
  /\ op = "spawn_node_from_string"
  /\ success
  /\ import_calls = 1
  /\ children = children_before

\* C5: when the scan after the insertion of a raw fragment finds no node with
\* the extracted name, the call returns success=false and the registry is
\* what it was before the call, whether or not the fragment is in the field.
C5_RollbackOnFailedVerification ==
  (op = "spawn_node_from_string" /\ import_calls = 1 /\ ~HasNode(children, name))
  => /\ ~success
     /\ ~raised
     /\ node_list = node_list_before
     /\ ~InList(node_list, name)

\* the verification failed and the fragment stayed in the field
C5_Witness ==
  /\ op = "spawn_node_from_string"
  /\ import_calls = 1
  /\ ~HasNode(children, name)
  /\ Len(children) = Len(children_before) + 1

\* C6: a raw-fragment spawn of a non-empty text without the pattern
\* name "<id>" returns success=false without raising and changes nothing.
C6_NoPatternRejectedCleanly ==
  (op = "spawn_node_from_string" /\ data # <<>> /\ NoMatch(data))
  => /\ ~raised
     /\ ~success
     /\ node_list = node_list_before
     /\ children = children_before

\* C7 as claimed: a raw-fragment spawn that passes validation and whose
\* append Webots silently ignores returns success=false and leaves the name
\* out of the registry, whatever the children field held.
C7_IgnoredInsertionFails ==
  (op = "spawn_node_from_string" /\ import_calls = 1 /\ children = children_before)
  => (~success /\ ~InList(node_list, name))

\* C7 as amended: ... provided no node of the children field already carried
\* the extracted name.
C7_IgnoredInsertionFailsUnlessNamePresent ==
  (op = "spawn_node_from_string" /\ import_calls = 1 /\ children = children_before
     /\ ~HasNode(children_before, name))
  => (~success /\ ~InList(node_list, name))

C7_Witness ==
  /\ op = "spawn_node_from_string"
  /\ import_calls = 1
  /\ children = children_before
  /\ ~HasNode(children_before, name)
  /\ Len(children) > 0

\* C8: remove-by-name of a registered name that some node carries removes
\* exactly the first node, in the order of the field, whose name field equals
\* the name, keeps every other node, and takes the name out of the registry.
C8_RemoveFirstMatch ==
  (op = "remove_node" /\ InList(node_list_before, message)
     /\ HasNode(children_before, message))
  => /\ \E i \in 1..Len(children_before) :
          /\ children_before[i].has_name
          /\ children_before[i].name = message
          /\ \A j \in 1..(i - 1) :
               ~(children_before[j].has_name /\ children_before[j].name = message)
          /\ children = SubSeq(children_before, 1, i - 1)
                          \o SubSeq(children_before, i + 1, Len(children_before))
     /\ ~InList(node_list, message)
     /\ Range(node_list) = Range(node_list_before) \ {message}
     /\ Len(node_list) = Len(node_list_before) - 1

\* two nodes carry the name, put there by different owners, and one stays
C8_Witness ==
  /\ op = "remove_node"
  /\ InList(node_list_before, message)
  /\ Len(children_before) = 2
  /\ children_before[1].has_name /\ children_before[1].name = message
  /\ children_before[2].has_name /\ children_before[2].name = message
  /\ children_before[1].owner # children_before[2].owner
  /\ Len(children) = 1

C10_InvalidRobotRejected ==
  (op = "spawn_urdf_robot"
     /\ \/ robot.name = ""
        \/ InList(node_list_before, robot.name)
        \/ (robot.urdf_path = "" /\ robot.robot_description = ""))
  => /\ ~success
     /\ ~raised
     /\ converter_calls = <<>>
     /\ import_calls = 0
     /\ children = children_before
     /\ node_list = node_list_before

\* an unnamed robot that names both sources
C10_Witness ==
  /\ op = "spawn_urdf_robot"
  /\ robot.name = ""
  /\ robot.urdf_path # ""
  /\ robot.robot_description # ""

\* C11: when the converter raises, the robot-description spawn ends as a
\* rejection with success=false, nothing is appended, the registry is
\* unchanged and the node keeps serving requests.
C11_ConverterFailureIsRejection ==
  (op = "spawn_urdf_robot" /\ converter_calls # <<>> /\ import_calls = 0)
  => /\ ~raised
     /\ ~success
     /\ spinning
     /\ children = children_before
     /\ node_list = node_list_before

\* C12: a robot-description spawn with a non-empty unregistered name, a
\* source and a conversion that returns calls one converter, hands one string
\* to importMFNodeFromString, which appends at the end of the children field
\* and moves no other node, appends the name to the registry without looking
\* at the field, and returns success=true.
C12_ValidRobotSpawned ==
  (op = "spawn_urdf_robot" /\ robot.name # ""
     /\ ~InList(node_list_before, robot.name)
     /\ (robot.urdf_path # "" \/ robot.robot_description # "")
     /\ ~raised)
  => /\ success
     /\ Len(converter_calls) = 1
     /\ import_calls = 1
     /\ node_list = node_list_before \o << robot.name >>
     /\ Len(children) \in { Len(children_before), Len(children_before) + 1 }
     /\ SubSeq(children, 1, Len(children_before)) = children_before

\* the name is registered although Webots made no node of the string, and
\* the field held a node already
C12_Witness ==
  /\ op = "spawn_urdf_robot"
  /\ success
  /\ children = children_before
  /\ Len(children) > 0
  /\ ~HasNode(children, name)

\* the number of nodes of the field whose name field is n
NodesNamed(ch, n) ==
  Cardinality({ i \in 1..Len(ch) : ch[i].has_name /\ ch[i].name = n })

\* a spawn added its name to the registry
NameAdded ==
  op \in Spawns /\ InList(node_list, name) /\ ~InList(node_list_before, name)

\* C13 as claimed: when a spawn has added a name to the registry, exactly one
\* node of the children field carries that name.
C13_AddedNameHasOneNode == NameAdded => NodesNamed(children, name) = 1

\* C13 as amended: a name is added to the registry only by a spawn that
\* handed one string to importMFNodeFromString and returns success=true; after
\* the raw-fragment path at least one node carries the name (maybe several,
\* maybe not the one appended), after the robot-description path maybe none.
C13_AddedNameWasImported ==
  NameAdded
  => /\ success
     /\ import_calls = 1
     /\ op = "spawn_node_from_string" => NodesNamed(children, name) >= 1

\* a raw-fragment spawn added a name that two nodes carry
C13_Witness ==
  /\ NameAdded
  /\ op = "spawn_node_from_string"
  /\ NodesNamed(children, name) = 2

\* C14: a name leaves the registry only in a remove-by-name call for that
\* name that removed a node whose name field is that name (the rollback of a
\* raw-fragment spawn takes back what the same call added).
C14_NameLeavesOnlyWithItsNode ==
  \A n \in Names :
    (InList(node_list_before, n) /\ ~InList(node_list, n))
    => /\ op = "remove_node"
       /\ message = n
       /\ \E i \in 1..Len(children_before) :
            /\ children_before[i].has_name
            /\ children_before[i].name = n
            /\ children = SubSeq(children_before, 1, i - 1)
                            \o SubSeq(children_before, i + 1, Len(children_before))

\* C15: every spawn, whatever it returns, keeps the nodes the children field
\* held, in their order, and appends at most one node after them.
C15_SpawnKeepsNodes ==
  op \in Spawns
  => /\ Len(children) \in { Len(children_before), Len(children_before) + 1 }
     /\ \A i \in 1..Len(children_before) : children[i] = children_before[i]

\* a raw-fragment spawn failed its verification and its node stayed behind a
\* node the field held before
C15_Witness ==
  /\ op = "spawn_node_from_string"
  /\ log = << "could not import the node" >>
  /\ Len(children_before) > 0
  /\ Len(children) = Len(children_before) + 1

\* C16: a robot-description spawn that passes the name checks calls at most
\* one converter, once: convertUrdfFile when urdf_path is set, whether or not
\* robot_description is set; else convertUrdfContent when robot_description is
\* set, with relative_path_prefix or None; else none.
C16_ConverterSelection ==
  (op = "spawn_urdf_robot" /\ robot.name # ""
     /\ ~InList(node_list_before, robot.name))
  => /\ Len(converter_calls) <= 1
     /\ robot.urdf_path # ""
          => /\ Len(converter_calls) = 1
             /\ converter_calls[1].converter = "convertUrdfFile"
             /\ converter_calls[1].input = robot.urdf_path
             /\ converter_calls[1].robotName = robot.name
     /\ (robot.urdf_path = "" /\ robot.robot_description # "")
          => /\ Len(converter_calls) = 1
             /\ converter_calls[1].converter = "convertUrdfContent"
             /\ converter_calls[1].input = robot.robot_description
             /\ converter_calls[1].robotName = robot.name
             /\ converter_calls[1].relativePathPrefix =
                  IF robot.relative_path_prefix = ""
                    THEN "None" ELSE robot.relative_path_prefix
     /\ (robot.urdf_path = "" /\ robot.robot_description = "")
          => converter_calls = <<>>

\* both sources are set and the file converter ran
C16_Witness ==
  /\ op = "spawn_urdf_robot"
  /\ robot.urdf_path # ""
  /\ robot.robot_description # ""
  /\ Len(converter_calls) = 1

\* C17: in every state, between the lines of a raw-fragment spawn too, the
\* registry holds no name twice and never the empty string.
C17_RegistryWellFormed ==
  /\ \A i, j \in 1..Len(node_list) : node_list[i] = node_list[j] => i = j
  /\ \A i \in 1..Len(node_list) : node_list[i] # ""

\* the registry holds a provisional name next to a registered one
C17_Witness ==
  /\ pc = "provisional"
  /\ Len(node_list) = 2
  /\ node_list[2] = name

\* C18: a tick calls step once; when step returns a negative value nothing is
\* published, else one clock message that carries the simulated time; the
\* registry and the children field are not touched.
C18_ClockTick ==
  op = "step"
  => /\ Len(step_calls) = 1
     /\ node_list = node_list_before
     /\ children = children_before
     /\ step_calls[1] < 0 => clock = <<>>
     /\ step_calls[1] >= 0
          => /\ Len(clock) = 1
             /\ clock[1].nanosec \in 0..999999999
             /\ clock[1].sec * 1000000000 + clock[1].nanosec
                  = time * BasicTimeStep * 1000000

\* a tick published a time that is no whole number of seconds
C18_Witness ==
  /\ op = "step"
  /\ Len(clock) = 1
  /\ clock[1].nanosec > 0

\* C19: the callbacks run one at a time, each to its end: while a
\* raw-fragment spawn is between its lines no other callback has started, so
\* the registry differs from the one that spawn found by its provisional name
\* only, and once it has failed the provisional name is gone.
C19_NoInterleaving ==
  /\ pc # "idle"
       => /\ op = "spawn_node_from_string"
          /\ ~InList(node_list_before, name)
          /\ node_list = node_list_before \o << name >>
  /\ (pc = "idle" /\ op = "spawn_node_from_string" /\ ~success)
       => node_list = node_list_before

\* a provisional name is in the registry and the scan will not find its node
C19_Witness ==
  /\ pc = "imported"
  /\ InList(node_list, name)
  /\ ~HasNode(children, name)

====
